---- MODULE Spec2Model ----
(***************************************************************************)
(* Multi-view projection aggregation: the per-face accumulators of         *)
(*   - TexturedPhotogrammetryMesh.aggregate_viewpoints_pytorch3d           *)
(*       (src/multiview_prediction_toolkit/meshes/meshes.py)               *)
(*   - TexturedPhotogrammetryMeshChunked.aggregate_projected_images        *)
(*   - TexturedPhotogrammetryMeshIndexPredictions.aggregate_projected_images*)
(*       (src/geograypher/meshes/derived_meshes.py)                        *)
(* One run of one aggregation is one behaviour; the variable `strategy`    *)
(* says which aggregation the behaviour runs.                              *)
(***************************************************************************)
EXTENDS Integers, Sequences, FiniteSets, TLC

\* ------------------------------------------------------------- bounds
NFaces == 2
NPixels == 2
NChannels == 3
MaxImages == 2
NCameras == 2
NClusters == 2
NPolygons == 3
NPolygonsPerCluster == 2
MaxVertexID == 2
MaxHeight == 2
MaxWidth == 2
MaxDim == 4

\* ------------------------------------------------- program constants
\* width in bits of np.uint16 (counts) and np.uint32 (face_colors)
UInt16Bits == 16
UInt32Bits == 32
\* the parameters of get_single_pytorch3d_camera besides self, and the arguments
\* transform_into_pytorch3d_camera_set passes to it
SingleCameraParams == 1
SingleCameraArgsPassed == 2
\* the side of the local-to-global transform matrix
TransformDim == 4

Faces == 0 .. (NFaces - 1)
Pixels == 1 .. NPixels
Channels == 0 .. (NChannels - 1)
Cameras == 1 .. NCameras
Clusters == 0 .. (NClusters - 1)

\* ---------------------------------------------------- float arithmetic
\* A float is a pair <<n, d>>: the quotient n/d in lowest terms when d > 0,
\* NaN when n = 0 and d = 0, +inf when n > 0 and d = 0.  All values of the
\* program are non-negative.
RECURSIVE GCD(_, _)
GCD(a, b) == IF b = 0 THEN a ELSE GCD(b, a % b)

NaN == <<0, 0>>
Inf == <<1, 0>>

Frac(n, d) ==
    IF d = 0 THEN (IF n = 0 THEN NaN ELSE Inf)
    ELSE LET g == GCD(n, d) IN <<n \div g, d \div g>>

Float(n) == <<n, 1>>
IsNaN(x) == x = NaN
IsFinite(x) == x[2] # 0

\* numpy true division of a float by an integer count: 0/0 and nan/c are nan,
\* x/0 with x > 0 is inf
TrueDivide(x, c) == IF IsNaN(x) THEN NaN ELSE Frac(x[1], x[2] * c)

FloatAdd(x, y) ==
    IF IsNaN(x) \/ IsNaN(y) THEN NaN
    ELSE IF x[2] = 0 \/ y[2] = 0 THEN Inf
    ELSE Frac(x[1] * y[2] + y[1] * x[2], x[2] * y[2])

\* x <= y for finite floats, compared over the least common denominator
FloatLeq(x, y) ==
    LET g == IF x[2] = 0 /\ y[2] = 0 THEN 1 ELSE GCD(x[2], y[2])
    IN x[1] * (y[2] \div g) <= y[1] * (x[2] \div g)

\* Storing x in an unsigned integer of the given width.  TLC's integers are 32
\* bit signed, so every value it can hold already fits in 32 unsigned bits.
WrapUInt(x, bits) == IF bits > 30 THEN x ELSE x % (2 ^ bits)

RECURSIVE SumOver(_, _)
SumOver(S, f) ==
    IF S = {} THEN 0
    ELSE LET x == CHOOSE y \in S : TRUE IN f[x] + SumOver(S \ {x}, f)

\* ------------------------------------------------------------ state
VARIABLES
    strategy,                \* which aggregation this behaviour runs
    pc,                      \* position in that aggregation
    n_images,                \* images processed so far
    \* aggregate_viewpoints_pytorch3d
    face_colors,             \* (n_faces, n_channels) uint32
    counts,                  \* (n_faces,) uint16
    unique_faces,            \* np.unique(pix_to_face) of the last image
    normalized_face_colors,  \* the returned average
    predicted_face_classes,  \* aggregate_images: the consensus class of each face
    \* history of the run
    touched,                 \* sum over images of the distinct faces hit
    observations,            \* per face, the images with a pixel that maps to it
    contributed,             \* per face and channel, the values of the pixels that hit it
    \* TexturedPhotogrammetryMeshChunked.aggregate_projected_images
    summed_projections,      \* (n_faces, n_channels) float
    projection_counts,       \* (n_faces,) int
    average_projections,     \* the returned average
    camera_cluster_IDs,      \* the cluster id of each camera
    cluster_ID,              \* the chunk generator's loop index
    face_IDs,                \* the Face ID Map of the current chunk
    sub_cameras,             \* cameras of the current chunk not yet projected
    sub_summed,              \* the chunk mesh's running sum, per chunk-local face
    sub_counts,              \* the chunk mesh's running count, per chunk-local face
    additional_information_submesh,  \* what the chunk's aggregation returned
    \* history of the chunked run
    un_summed,               \* the sum of an unchunked run over the same cameras
    un_counts,               \* the count of an unchunked run over the same cameras
    confined,                \* every camera so far saw only faces of its own chunk
    n_maps,                  \* per face, the number of Face ID Maps holding it
    obs_in_map,              \* per face, the cameras of chunks holding it that saw it
    yielded,                 \* the triples get_mesh_chunks_for_cameras has yielded
    merged,                  \* the Face ID Map and returned sums and counts of each merged chunk
    \* TexturedPhotogrammetryMeshIndexPredictions.aggregate_projected_images
    ip_projection_counts,    \* sparse (n_faces, 1) uint16
    ip_summed_projections,   \* sparse (n_faces, n_classes) uint16
    ip_average_projections,  \* the returned sparse average
    projection_for_image,    \* the projection the loop body last took
    \* TexturedPhotogrammetryMeshPyTorch3dRendering.pix2face
    cameras_arg,             \* the cameras argument: one camera, or a camera set
    p3d_cameras,             \* the render-space camera batch
    fragments,               \* fragments.pix_to_face[:, :, :, 0] of the rasterizer
    returned_pix_to_face,    \* the array pix2face returned
    \* TexturedPhotogrammetryMesh.load_mesh
    load_args,               \* the transform file and the arguments of the call
    local_to_epgs_4978_transform,
    pyvista_mesh,
    raised,                  \* the exception a call ended with, or "none"
    \* determine_minimum_overlapping_images
    images_on_face,          \* per face, the images whose projection reached it
    min_observations_to_be_included,
    valid_rows,              \* the mask of the faces kept
    projection_matrix,       \* the coverage matrix handed to SetCover
    \* TexturedPhotogrammetryMeshChunked.label_polygons
    polygon_labels,          \* per polygon, the label the labelling of its cluster returns
    polygon_cluster_IDs,     \* the cluster id of each polygon
    label_cluster_ID,        \* the loop index of label_polygons
    all_labels_itemsize,     \* the width of the dtype of all_labels; 0 while it is None
    all_labels,              \* the array of the labels of all polygons
    label_writes,            \* per polygon, the number of assignments to its entry
    returned_labels,         \* the list label_polygons returned
    \* TexturedPhotogrammetryMesh.vert_to_face_IDs
    vert_IDs,                \* the argument: the integer ID of each vertex, -1 for none
    most_common_class_per_face,  \* the array vert_to_face_IDs returned
    \* TexturedPhotogrammetryMesh.render_pytorch3d
    self_face_IDs,           \* self.face_IDs
    self_vertex_IDs,         \* self.vertex_IDs
    label_img                \* the rendered label of each pixel

indexVars == <<ip_projection_counts, ip_summed_projections, ip_average_projections,
               projection_for_image>>

chunkVars == <<summed_projections, projection_counts, average_projections,
               camera_cluster_IDs, cluster_ID, face_IDs, sub_cameras, sub_summed,
               sub_counts, additional_information_submesh>>

chunkHistory == <<un_summed, un_counts, confined, n_maps, obs_in_map, yielded, merged>>

overlapVars == <<images_on_face, min_observations_to_be_included, valid_rows,
                projection_matrix>>

\* the variables of the calls that are not aggregation runs
labelVars == <<polygon_labels, polygon_cluster_IDs, label_cluster_ID, all_labels_itemsize,
              all_labels, label_writes, returned_labels>>

voteVars == <<vert_IDs, most_common_class_per_face>>

textureVars == <<self_face_IDs, self_vertex_IDs, label_img>>

entryVars == <<overlapVars, labelVars, voteVars, textureVars>>

callVars == <<cameras_arg, p3d_cameras, fragments, returned_pix_to_face, load_args,
              local_to_epgs_4978_transform, pyvista_mesh, raised, entryVars>>

vars == <<strategy, pc, n_images, face_colors, counts, unique_faces,
          normalized_face_colors, predicted_face_classes, touched, observations,
          contributed, chunkVars, chunkHistory, indexVars, callVars>>

viewpointVars == <<face_colors, counts, unique_faces, normalized_face_colors,
                   predicted_face_classes, touched, observations, contributed>>

\* --------------------------------------------- the one-hot label image
\* The segmentor camera set returns, per pixel, the one-hot vector of its class.
OneHot(c) == [ch \in Channels |-> IF ch = c THEN 1 ELSE 0]
ZeroRow == [ch \in Channels |-> 0]

\* ----------------------------- aggregate_viewpoints_pytorch3d (meshes.py)
\* numpy indexing: a negative index counts from the end of the array
WrapIndex(i) == IF i < 0 THEN i + NFaces ELSE i

\* The pixels whose index selects row f of a per-face array
PixelsOnRow(pix_to_face, f) == {p \in Pixels : WrapIndex(pix_to_face[p]) = f}

\* new_colors[pix_to_face] = img[...], rows 0 .. f: a row no pixel selects stays
\* zero, a row several pixels select keeps the value of one of them (numpy does
\* not define which).
RECURSIVE NewColorsUpTo(_, _, _)
NewColorsUpTo(pix_to_face, img, f) ==
    LET rows == IF PixelsOnRow(pix_to_face, f) = {} THEN {ZeroRow}
                ELSE {OneHot(img[p]) : p \in PixelsOnRow(pix_to_face, f)}
    IN IF f = 0 THEN {[g \in {0} |-> r] : r \in rows}
       ELSE {[g \in 0 .. f |-> IF g = f THEN r ELSE nc[g]] :
                nc \in NewColorsUpTo(pix_to_face, img, f - 1), r \in rows}

NewColorsSet(pix_to_face, img) == NewColorsUpTo(pix_to_face, img, NFaces - 1)

UniqueFaces(pix_to_face) == {pix_to_face[p] : p \in Pixels}

\* a count that goes up once per pixel instead of once per image
IncrementPerPixel(old, pix_to_face) ==
    [f \in Faces |->
        WrapUInt(old[f] + Cardinality(PixelsOnRow(pix_to_face, f)), UInt16Bits)]

\* unique_faces = np.unique(pix_to_face)
\* counts[unique_faces] = counts[unique_faces] + 1
IncrementCounts(old, pix_to_face) ==
    [f \in Faces |->
        IF \E u \in UniqueFaces(pix_to_face) : WrapIndex(u) = f
        THEN WrapUInt(old[f] + 1, UInt16Bits)
        ELSE old[f]]

AddColors(old, nc) ==
    [f \in Faces |-> [ch \in Channels |-> WrapUInt(old[f][ch] + nc[f][ch], UInt32Bits)]]

\* a normalization that reports 0 for a face nothing was projected onto
NormalizeZeroFill(fc, cnt) ==
    [f \in Faces |-> [ch \in Channels |->
        IF cnt[f] = 0 THEN Float(0) ELSE Frac(fc[f][ch], cnt[f])]]

\* face_colors / np.expand_dims(counts, 1)
Normalize(fc, cnt) ==
    [f \in Faces |-> [ch \in Channels |-> Frac(fc[f][ch], cnt[f])]]

\* the faces a pixel of the image really maps to: -1 is "no face"
FacesHit(pix_to_face) == {pix_to_face[p] : p \in Pixels} \ {-1}

\* the values of the image's pixels that map to face f, per channel
ValuesOn(pix_to_face, img, f, ch) ==
    {OneHot(img[p])[ch] : p \in {q \in Pixels : pix_to_face[q] = f}}

InitViewpointVars ==
    /\ face_colors = [f \in Faces |-> ZeroRow]
    /\ counts = [f \in Faces |-> 0]
    /\ unique_faces = {}
    /\ normalized_face_colors = <<>>
    /\ predicted_face_classes = <<>>
    /\ touched = 0
    /\ observations = [f \in Faces |-> 0]
    /\ contributed = [f \in Faces |-> [ch \in Channels |-> {}]]

\* the length of a run that stops two images short of the range of the counts
LongRun == 2 ^ UInt16Bits - 2

\* one iteration of `for i in tqdm(camera_inds)`, in a run from the start or in
\* the continuation of a long run
ViewpointImage ==
    /\ strategy = "viewpoints"
    /\ pc = "loop"
    /\ \/ n_images < MaxImages
       \/ (LongRun <= n_images /\ n_images < LongRun + MaxImages)
    /\ \E pix_to_face \in [Pixels -> -1 .. (NFaces - 1)], img \in [Pixels -> Channels] :
         \E nc \in NewColorsSet(pix_to_face, img) :
            /\ face_colors' = AddColors(face_colors, nc)
            /\ unique_faces' = UniqueFaces(pix_to_face)
            /\ counts' = IncrementCounts(counts, pix_to_face)
            /\ touched' = touched + Cardinality(FacesHit(pix_to_face))
            /\ observations' = [f \in Faces |->
                    IF f \in FacesHit(pix_to_face) THEN observations[f] + 1
                    ELSE observations[f]]
            /\ contributed' = [f \in Faces |-> [ch \in Channels |->
                    contributed[f][ch] \cup ValuesOn(pix_to_face, img, f, ch)]]
    /\ n_images' = n_images + 1
    /\ UNCHANGED <<strategy, callVars, pc, normalized_face_colors, predicted_face_classes,
                   chunkVars, chunkHistory, indexVars>>

\* the loop ends; normalized_face_colors = face_colors / counts
ViewpointReturn ==
    /\ strategy = "viewpoints"
    /\ pc = "loop"
    /\ normalized_face_colors' = Normalize(face_colors, counts)
    /\ pc' = "done"
    /\ UNCHANGED <<strategy, callVars, n_images, face_colors, counts, unique_faces,
                   predicted_face_classes, touched, observations, contributed,
                   chunkVars, chunkHistory, indexVars>>

\* ------------------------------ aggregate_images (entrypoints/aggregate_images.py)
Min(S) == CHOOSE x \in S : \A y \in S : x <= y
Max(S) == CHOOSE x \in S : \A y \in S : y <= x

NanInds(row) == {c \in Channels : IsNaN(row[c])}

\* the indices of the greatest value of a row without a NaN
MaxInds(row) == {c \in Channels : \A d \in Channels : FloatLeq(row[d], row[c])}

\* an argmax that returns the last index of the maximum
ArgMaxLast(row) ==
    IF NanInds(row) # {} THEN Max(NanInds(row)) ELSE Max(MaxInds(row))

\* np.argmax over the class axis: the first index of the maximum, a NaN being
\* taken for the maximum
ArgMax(row) ==
    IF NanInds(row) # {} THEN Min(NanInds(row)) ELSE Min(MaxInds(row))

\* predicted_face_classes = np.argmax(aggregated_face_labels, axis=1,
\*                                    keepdims=True).astype(float)
ConsensusExtraction ==
    /\ strategy = "viewpoints"
    /\ pc = "done"
    /\ predicted_face_classes' =
            [f \in Faces |-> Float(ArgMax(normalized_face_colors[f]))]
    /\ pc' = "consensus"
    /\ UNCHANGED <<strategy, callVars, n_images, face_colors, counts, unique_faces,
                   normalized_face_colors, touched, observations, contributed,
                   chunkVars, chunkHistory, indexVars>>


\* ------------------------------------------------ per-image projections
\* The projection of one image onto the mesh gives each face the class seen
\* on it, or NaN where the image does not see the face.
Projections == [Faces -> {NaN} \cup {Float(c) : c \in Channels}]

\* The dense form of a projected face: its class one-hot, or NaN in every channel
DenseRow(x) ==
    IF IsFinite(x) THEN [ch \in Channels |-> Float(OneHot(x[1] \div x[2])[ch])]
    ELSE [ch \in Channels |-> NaN]

NanToZero(x) == IF IsNaN(x) THEN Float(0) ELSE x

\* np.nansum([x, y], axis=0)
NanSum(x, y) == FloatAdd(NanToZero(x), NanToZero(y))

\* ------------- TexturedPhotogrammetryMesh.aggregate_projected_images (dense)
\* per projected image: a face with a finite value is counted once and its
\* values are added, a NaN adding nothing
DenseCountImage(cnt, row) == IF \E ch \in Channels : IsFinite(row[ch]) THEN cnt + 1 ELSE cnt
DenseSumImage(sm, row) == [ch \in Channels |-> NanSum(sm[ch], row[ch])]

\* summed_projections[projection_counts == 0] = np.nan
NanWhereUnobserved(sm, cnt) == IF cnt = 0 THEN [ch \in Channels |-> NaN] ELSE sm

\* a division that fills zero where the count is zero
AverageRowZeroFill(sm, cnt) ==
    [ch \in Channels |-> IF cnt = 0 THEN Float(0) ELSE TrueDivide(sm[ch], cnt)]

\* np.divide(summed_projections, np.expand_dims(projection_counts, 1))
AverageRow(sm, cnt) == [ch \in Channels |-> TrueDivide(sm[ch], cnt)]

ZeroFloatRow == [ch \in Channels |-> Float(0)]

\* -------------- TexturedPhotogrammetryMeshChunked (derived_meshes.py)
RECURSIVE SortedSeq(_)
SortedSeq(S) ==
    IF S = {} THEN <<>>
    ELSE LET m == CHOOSE x \in S : \A y \in S : x <= y
         IN <<m>> \o SortedSeq(S \ {m})

\* select_mesh_ROI(..., return_original_IDs=True): the parent indices of the
\* faces of the extracted region, each once
FaceIDMaps == {SortedSeq(S) : S \in SUBSET Faces}

Range(q) == {q[i] : i \in 1 .. Len(q)}

\* a merge that adds the chunk's counts at the chunk-local indices, without
\* re-mapping them through the Face ID Map
MergeCountsNoMap(global, ids, local) ==
    [f \in Faces |-> IF f + 1 <= Len(local) THEN global[f] + local[f + 1] ELSE global[f]]

\* a merge that overwrites the parent's count with the chunk's
MergeCountsOverwrite(global, ids, local) ==
    [f \in Faces |->
        IF \E i \in 1 .. Len(ids) : ids[i] = f
        THEN local[CHOOSE i \in 1 .. Len(ids) : ids[i] = f]
        ELSE global[f]]

\* projection_counts[face_IDs] = projection_counts[face_IDs] + chunk counts
MergeCounts(global, ids, local) ==
    [f \in Faces |->
        IF \E i \in 1 .. Len(ids) : ids[i] = f
        THEN global[f] + local[CHOOSE i \in 1 .. Len(ids) : ids[i] = f]
        ELSE global[f]]

\* a merge that overwrites the parent's sum with the chunk's
MergeSummedOverwrite(global, ids, local) ==
    [f \in Faces |->
        IF \E i \in 1 .. Len(ids) : ids[i] = f
        THEN [ch \in Channels |->
                NanToZero(local[CHOOSE i \in 1 .. Len(ids) : ids[i] = f][ch])]
        ELSE global[f]]

\* a merge in which a NaN of the chunk's sum reaches the parent's sum
MergeSummedPlain(global, ids, local) ==
    [f \in Faces |->
        IF \E i \in 1 .. Len(ids) : ids[i] = f
        THEN [ch \in Channels |->
                FloatAdd(global[f][ch], local[CHOOSE i \in 1 .. Len(ids) : ids[i] = f][ch])]
        ELSE global[f]]

\* summed_projections[face_IDs] = np.nansum([summed_projections[face_IDs], chunk sums], axis=0)
MergeSummed(global, ids, local) ==
    [f \in Faces |->
        IF \E i \in 1 .. Len(ids) : ids[i] = f
        THEN [ch \in Channels |->
                NanSum(global[f][ch], local[CHOOSE i \in 1 .. Len(ids) : ids[i] = f][ch])]
        ELSE global[f]]

InitChunkVars ==
    /\ summed_projections = [f \in Faces |-> ZeroFloatRow]
    /\ projection_counts = [f \in Faces |-> 0]
    /\ average_projections = <<>>
    /\ camera_cluster_IDs = <<>>
    /\ cluster_ID = 0
    /\ face_IDs = <<>>
    /\ sub_cameras = {}
    /\ sub_summed = <<>>
    /\ sub_counts = <<>>
    /\ additional_information_submesh = <<>>
    /\ un_summed = [f \in Faces |-> ZeroFloatRow]
    /\ un_counts = [f \in Faces |-> 0]
    /\ confined = TRUE
    /\ n_maps = [f \in Faces |-> 0]
    /\ obs_in_map = [f \in Faces |-> 0]
    /\ yielded = <<>>
    /\ merged = <<>>

\* what an unchunked run adds for one projected image
UnchunkedImage(proj) ==
    /\ un_counts' = [f \in Faces |-> DenseCountImage(un_counts[f], DenseRow(proj[f]))]
    /\ un_summed' = [f \in Faces |-> DenseSumImage(un_summed[f], DenseRow(proj[f]))]

RECURSIVE CountSeen(_, _, _)
CountSeen(cams, projs, f) ==
    IF cams = {} THEN 0
    ELSE LET c == CHOOSE x \in cams : TRUE
         IN (IF IsFinite(projs[c][f]) THEN 1 ELSE 0) + CountSeen(cams \ {c}, projs, f)

\* ------- TexturedPhotogrammetryMeshIndexPredictions (derived_meshes.py)
\* projection_for_image[projected_face_inds, 0].astype(int)
AsInt(x) == x[1] \div x[2]

\* np.nonzero(np.isfinite(np.squeeze(projection_for_image)))[0]
ProjectedFaceInds(proj) == {f \in Faces : IsFinite(proj[f])}

\* projection_counts = projection_counts + new_projection_counts
IndexCountsImage(cnt, proj) ==
    [f \in Faces |->
        IF f \in ProjectedFaceInds(proj) THEN WrapUInt(cnt[f] + 1, UInt16Bits) ELSE cnt[f]]

\* an update that marks the (face, class) cell instead of incrementing it
IndexSummedMark(sm, proj) ==
    [f \in Faces |-> [c \in Channels |->
        IF f \in ProjectedFaceInds(proj) /\ c = AsInt(proj[f]) THEN 1 ELSE sm[f][c]]]

\* summed_projections[projected_face_inds, projected_face_classes] = old values + 1
IndexSummedImage(sm, proj) ==
    [f \in Faces |-> [c \in Channels |->
        IF f \in ProjectedFaceInds(proj) /\ c = AsInt(proj[f])
        THEN WrapUInt(sm[f][c] + 1, UInt16Bits)
        ELSE sm[f][c]]]

\* np.reciprocal on an array of dtype uint16: the integer quotient 1 // x
Reciprocal(x) == 1 \div x

\* summed_projections.multiply(projection_counts_reciprocal); a face with no
\* stored count has no stored reciprocal, and its row of the product is empty
IndexAverage(sm, cnt) ==
    [f \in Faces |-> [c \in Channels |->
        IF cnt[f] = 0 THEN 0 ELSE WrapUInt(sm[f][c] * Reciprocal(cnt[f]), UInt16Bits)]]

InitIndexVars ==
    /\ ip_projection_counts = [f \in Faces |-> 0]
    /\ ip_summed_projections = [f \in Faces |-> ZeroRow]
    /\ ip_average_projections = <<>>
    /\ projection_for_image = <<>>

\* the loop body for one projection
IndexAggregate(proj) ==
    /\ projection_for_image' = proj
    /\ IF ProjectedFaceInds(proj) = {}
       THEN UNCHANGED <<ip_projection_counts, ip_summed_projections>>
       ELSE /\ ip_projection_counts' = IndexCountsImage(ip_projection_counts, proj)
            /\ ip_summed_projections' = IndexSummedImage(ip_summed_projections, proj)

\* one iteration of `for projection_for_image in tqdm(project_images_generator)`
IndexImage ==
    /\ strategy = "index"
    /\ pc = "loop"
    /\ n_images < MaxImages
    /\ \E proj \in Projections : IndexAggregate(proj)
    /\ n_images' = n_images + 1
    /\ UNCHANGED <<strategy, callVars, pc, viewpointVars, chunkVars, chunkHistory,
                   ip_average_projections>>

\* the generator is exhausted: normalize by the counts and return
IndexReturn ==
    /\ strategy = "index"
    /\ pc = "loop"
    /\ ip_average_projections' = IndexAverage(ip_summed_projections, ip_projection_counts)
    /\ pc' = "done"
    /\ UNCHANGED <<strategy, callVars, n_images, viewpointVars, chunkVars, chunkHistory,
                   ip_projection_counts, ip_summed_projections, projection_for_image>>

\* the runs that use the chunked aggregation: alone, or beside the sparse
\* aggregation taking the same projections
ChunkedRuns == {"chunked", "equiv"}

\* a selection that takes the cameras of every cluster from this one on
MatchingCameraIndsFrom(ids, k) == {c \in Cameras : k <= ids[c]}

\* np.where(cluster_ID == camera_cluster_IDs)[0]
MatchingCameraInds(ids, k) == {c \in Cameras : k = ids[c]}

\* yield sub_mesh_TPM, sub_camera_set, face_IDs
Triple(k, cams, ids) == [cluster_ID |-> k, sub_camera_set |-> cams, face_IDs |-> ids]

\* a consumer that skips no chunk
IsEmptyChunkNever(ids) == FALSE

\* if len(face_IDs) == 0: continue
IsEmptyChunk(ids) == Len(ids) = 0

\* get_mesh_chunks_for_cameras up to its loop: KMeans gives each camera a cluster id
ClusterCameras ==
    /\ strategy \in ChunkedRuns
    /\ pc = "start"
    /\ camera_cluster_IDs' \in [Cameras -> Clusters]
    /\ cluster_ID' = 0
    /\ pc' = "chunk"
    /\ UNCHANGED <<indexVars, strategy, callVars, n_images, viewpointVars, summed_projections,
                   projection_counts, average_projections, face_IDs, sub_cameras,
                   sub_summed, sub_counts, additional_information_submesh, chunkHistory>>

\* the generator yields a chunk with no faces: `continue`
ChunkSkipped ==
    /\ strategy \in ChunkedRuns
    /\ pc = "chunk"
    /\ cluster_ID < NClusters
    /\ \E ids \in FaceIDMaps :
        /\ IsEmptyChunk(ids)
        /\ face_IDs' = ids
        /\ yielded' = Append(yielded,
                Triple(cluster_ID, MatchingCameraInds(camera_cluster_IDs, cluster_ID), ids))
    /\ sub_cameras' = {}
    /\ cluster_ID' = cluster_ID + 1
    /\ LET cams == MatchingCameraInds(camera_cluster_IDs, cluster_ID)
       IN \E projs \in [cams -> Projections] :
            /\ un_counts' = [f \in Faces |-> un_counts[f] + CountSeen(cams, projs, f)]
            /\ un_summed' = [f \in Faces |-> [ch \in Channels |->
                    Float(un_summed[f][ch][1]
                          + Cardinality({c \in cams : projs[c][f] = Float(ch)}))]]
            /\ confined' = (confined /\ \A c \in cams : \A f \in Faces : IsNaN(projs[c][f]))
    /\ UNCHANGED <<indexVars, strategy, callVars, pc, n_images, viewpointVars, summed_projections,
                   projection_counts, average_projections, camera_cluster_IDs,
                   sub_summed, sub_counts, additional_information_submesh,
                   n_maps, obs_in_map, merged>>

\* the generator yields a chunk with faces; its aggregation starts
ChunkYielded ==
    /\ strategy \in ChunkedRuns
    /\ pc = "chunk"
    /\ cluster_ID < NClusters
    /\ \E ids \in FaceIDMaps :
        /\ ~IsEmptyChunk(ids)
        /\ face_IDs' = ids
        /\ yielded' = Append(yielded,
                Triple(cluster_ID, MatchingCameraInds(camera_cluster_IDs, cluster_ID), ids))
        /\ sub_summed' = [i \in 1 .. Len(ids) |-> ZeroFloatRow]
        /\ sub_counts' = [i \in 1 .. Len(ids) |-> 0]
        /\ n_maps' = [f \in Faces |-> IF f \in Range(ids) THEN n_maps[f] + 1 ELSE n_maps[f]]
    /\ sub_cameras' = MatchingCameraInds(camera_cluster_IDs, cluster_ID)
    /\ pc' = "images"
    /\ UNCHANGED <<indexVars, strategy, callVars, n_images, viewpointVars, summed_projections,
                   projection_counts, average_projections, camera_cluster_IDs,
                   cluster_ID, additional_information_submesh,
                   un_summed, un_counts, confined, obs_in_map, merged>>

\* the chunk mesh aggregates the projection of its next camera
ChunkImage ==
    /\ strategy \in ChunkedRuns
    /\ pc = "images"
    /\ sub_cameras # {}
    /\ sub_cameras' = sub_cameras \ {CHOOSE c \in sub_cameras : \A d \in sub_cameras : c <= d}
    /\ \E proj \in Projections :
        \* proj is what the camera projects onto the whole mesh; the chunk mesh
        \* holds the faces face_IDs only, and the camera projects onto each of
        \* them what it projects onto it in the whole mesh
        /\ sub_counts' = [i \in 1 .. Len(face_IDs) |->
                DenseCountImage(sub_counts[i], DenseRow(proj[face_IDs[i]]))]
        /\ sub_summed' = [i \in 1 .. Len(face_IDs) |->
                DenseSumImage(sub_summed[i], DenseRow(proj[face_IDs[i]]))]
        /\ UnchunkedImage(proj)
        /\ confined' = (confined /\ \A f \in Faces : IsFinite(proj[f]) => f \in Range(face_IDs))
        /\ obs_in_map' = [f \in Faces |->
                IF f \in Range(face_IDs) /\ IsFinite(proj[f])
                THEN obs_in_map[f] + 1 ELSE obs_in_map[f]]
        \* in the comparison run the sparse aggregation takes the same projection
        /\ IF strategy = "equiv" THEN IndexAggregate(proj)
           ELSE UNCHANGED <<ip_projection_counts, ip_summed_projections,
                            projection_for_image>>
    /\ UNCHANGED <<strategy, callVars, pc, n_images, viewpointVars, summed_projections,
                   projection_counts, average_projections, camera_cluster_IDs,
                   cluster_ID, face_IDs, additional_information_submesh, n_maps,
                   yielded, merged, ip_average_projections>>

\* the chunk's aggregation returns and is merged into the parent's accumulators
ChunkMerge ==
    /\ strategy \in ChunkedRuns
    /\ pc = "images"
    /\ sub_cameras = {}
    /\ LET info == [summed_projections |->
                        [i \in 1 .. Len(face_IDs) |->
                            NanWhereUnobserved(sub_summed[i], sub_counts[i])],
                    projection_counts |-> sub_counts]
       IN /\ additional_information_submesh' = info
          /\ summed_projections' =
                MergeSummed(summed_projections, face_IDs, info.summed_projections)
          /\ projection_counts' =
                MergeCounts(projection_counts, face_IDs, info.projection_counts)
          /\ merged' = Append(merged, [face_IDs |-> face_IDs, info |-> info])
    /\ cluster_ID' = cluster_ID + 1
    /\ pc' = "chunk"
    /\ UNCHANGED <<indexVars, strategy, callVars, n_images, viewpointVars, average_projections,
                   camera_cluster_IDs, face_IDs, sub_cameras, sub_summed, sub_counts,
                   un_summed, un_counts, confined, n_maps, obs_in_map, yielded>>

\* the chunks are exhausted: NaN for the faces never projected onto, then the division
ChunkedReturn ==
    /\ strategy \in ChunkedRuns
    /\ pc = "chunk"
    /\ cluster_ID = NClusters
    /\ summed_projections' =
            [f \in Faces |-> NanWhereUnobserved(summed_projections[f], projection_counts[f])]
    /\ average_projections' =
            [f \in Faces |->
                AverageRow(NanWhereUnobserved(summed_projections[f], projection_counts[f]),
                           projection_counts[f])]
    /\ pc' = "done"
    /\ IF strategy = "equiv"
       THEN ip_average_projections' =
                IndexAverage(ip_summed_projections, ip_projection_counts)
       ELSE UNCHANGED ip_average_projections
    /\ UNCHANGED <<ip_projection_counts, ip_summed_projections, projection_for_image>>
    /\ UNCHANGED <<strategy, callVars, n_images, viewpointVars, projection_counts,
                   camera_cluster_IDs, cluster_ID, face_IDs, sub_cameras, sub_summed,
                   sub_counts, additional_information_submesh, chunkHistory>>

\* ---- TexturedPhotogrammetryMeshPyTorch3dRendering (derived_meshes.py)
\* an image size is (height, width)
ImageSizes == (1 .. MaxHeight) \X (1 .. MaxWidth)

\* a camera set holds at least one camera
CameraSets == UNION {[1 .. n -> ImageSizes] : n \in 1 .. NCameras}

\* the cameras argument: a PhotogrammetryCamera or a PhotogrammetryCameraSet
CameraArgs ==
    {[is_single |-> TRUE, image_sizes |-> <<sz>>] : sz \in ImageSizes}
    \cup {[is_single |-> FALSE, image_sizes |-> cs] : cs \in CameraSets}

\* a call of get_single_pytorch3d_camera with n_args arguments besides self: the
\* render-space camera of one camera, which keeps its image size
GetSinglePytorch3dCamera(n_args, image_size) ==
    IF n_args # SingleCameraParams
    THEN [raised |-> "TypeError", p3d_cameras |-> <<>>]
    ELSE [raised |-> "none", p3d_cameras |-> <<image_size>>]

\* transform_into_pytorch3d_camera_set: the cameras one by one, the test of the
\* image sizes, the batch
TransformIntoPytorch3dCameraSet(image_sizes) ==
    LET singles == [i \in 1 .. Len(image_sizes) |->
                        GetSinglePytorch3dCamera(SingleCameraArgsPassed, image_sizes[i])]
    IN IF \E i \in 1 .. Len(image_sizes) : singles[i].raised # "none"
       THEN [raised |-> "TypeError", p3d_cameras |-> <<>>]
       ELSE IF \E i \in 1 .. Len(image_sizes) : image_sizes[i] # image_sizes[1]
       THEN [raised |-> "ValueError", p3d_cameras |-> <<>>]
       ELSE [raised |-> "none", p3d_cameras |-> image_sizes]

\* what the rasterizer returns for a mesh extended to n copies and n cameras of
\* one image size: per camera and pixel -1, or the face seen, which the packed
\* batch numbers from (k - 1) * n_faces for its k-th copy of the mesh
RasterizerOutputs(n, image_size) ==
    {[k \in 1 .. n |-> [i \in 1 .. image_size[1] |-> [j \in 1 .. image_size[2] |->
            IF seen[k][i][j] = -1 THEN -1 ELSE seen[k][i][j] + (k - 1) * NFaces]]] :
        seen \in [1 .. n -> [1 .. image_size[1] -> [1 .. image_size[2] ->
                        -1 .. (NFaces - 1)]]]}

\* invalid_mask = pix_to_face == -1; pix_to_face = pix_to_face - offset_array;
\* pix_to_face[invalid_mask] = -1
DeOffset(arr) ==
    [k \in 1 .. Len(arr) |-> [i \in 1 .. Len(arr[k]) |-> [j \in 1 .. Len(arr[k][i]) |->
        IF arr[k][i][j] = -1 THEN -1 ELSE arr[k][i][j] - (k - 1) * NFaces]]]

accumulatorVars == <<n_images, viewpointVars, chunkVars, chunkHistory, indexVars>>

loadVars == <<load_args, local_to_epgs_4978_transform, pyvista_mesh>>

\* pix2face(cameras)
Pix2Face ==
    /\ strategy = "pix2face"
    /\ pc = "call"
    /\ LET conv == IF cameras_arg.is_single
                   THEN GetSinglePytorch3dCamera(1, cameras_arg.image_sizes[1])
                   ELSE TransformIntoPytorch3dCameraSet(cameras_arg.image_sizes)
       IN /\ raised' = conv.raised
          /\ p3d_cameras' = conv.p3d_cameras
          /\ IF conv.raised # "none"
             THEN UNCHANGED <<fragments, returned_pix_to_face>>
             ELSE \E out \in RasterizerOutputs(Len(conv.p3d_cameras),
                                                cameras_arg.image_sizes[1]) :
                    /\ fragments' = out
                    /\ returned_pix_to_face' = DeOffset(out)
    /\ pc' = "done"
    /\ UNCHANGED <<strategy, cameras_arg, accumulatorVars, loadVars, entryVars>>

\* transform_into_pytorch3d_camera_set(cameras)
CameraSetConversion ==
    /\ strategy = "camera_set"
    /\ pc = "call"
    /\ LET conv == TransformIntoPytorch3dCameraSet(cameras_arg.image_sizes)
       IN /\ raised' = conv.raised
          /\ p3d_cameras' = conv.p3d_cameras
    /\ pc' = "done"
    /\ UNCHANGED <<strategy, cameras_arg, fragments, returned_pix_to_face, accumulatorVars,
                   loadVars, entryVars>>

\* -------------------------- TexturedPhotogrammetryMesh.load_mesh (meshes.py)
\* the shapes np.loadtxt can give the content of a file: 0, 1 or 2 dimensions
LoadtxtShapes ==
    {<<>>} \cup {<<n>> : n \in 1 .. MaxDim}
           \cup {<<r, c>> : r \in 1 .. MaxDim, c \in 1 .. MaxDim}

\* the transform file (whether it is there, and the shape of its content) and
\* the arguments of load_mesh
LoadArgs ==
    [is_file : {TRUE}, shape : LoadtxtShapes,
     require_transform : BOOLEAN, downsample : BOOLEAN]
    \cup [is_file : {FALSE}, shape : {<<>>},
          require_transform : BOOLEAN, downsample : BOOLEAN]

\* a test that accepts every matrix
IsTransformShapeAnyMatrix(shape) == Len(shape) = 2

\* self.local_to_epgs_4978_transform.shape != (4, 4), negated
IsTransformShape(shape) == shape = <<TransformDim, TransformDim>>

\* np.eye(4)
Eye4 == [from |-> "np.eye", shape |-> <<TransformDim, TransformDim>>]

\* pv.read(self.mesh_filename), then decimate if downsample_target != 1.0
ReadMesh(downsample) == IF downsample THEN "decimated" ELSE "read"

\* load_mesh(downsample_target, require_transform)
LoadMesh ==
    /\ strategy = "load_mesh"
    /\ pc = "call"
    /\ IF load_args.is_file
       THEN /\ local_to_epgs_4978_transform' =
                    [from |-> "file", shape |-> load_args.shape]
            /\ IF ~IsTransformShape(load_args.shape)
               THEN raised' = "ValueError" /\ UNCHANGED pyvista_mesh
               ELSE raised' = "none" /\ pyvista_mesh' = ReadMesh(load_args.downsample)
       ELSE /\ IF load_args.require_transform
               THEN local_to_epgs_4978_transform' = Eye4
               ELSE UNCHANGED local_to_epgs_4978_transform
            /\ raised' = "none"
            /\ pyvista_mesh' = ReadMesh(load_args.downsample)
    /\ pc' = "done"
    /\ UNCHANGED <<strategy, load_args, cameras_arg, p3d_cameras, fragments,
                   returned_pix_to_face, accumulatorVars, entryVars>>

\* ------------- determine_minimum_overlapping_images (image_overlap_tools.py)
\* ImageIDSegmentor: every pixel of image i is labelled i, so what image i
\* projects onto a face is i, or NaN where it does not reach the face
ImageIDProjections(i) == [Faces -> {NaN, Float(i)}]

\* load_npz(projections_filename).astype(bool)
AsBool(matrix) == [f \in Faces |-> [c \in Channels |-> matrix[f][c] # 0]]

\* np.squeeze(np.asarray(np.sum(projection_matrix, axis=1)))
ProjectedImagesPerFace(matrix) ==
    [f \in Faces |-> Cardinality({c \in Channels : matrix[f][c]})]

\* a mask that wants more than the threshold
ValidRowsStrict(per_face, threshold) == [f \in Faces |-> per_face[f] > threshold]

\* projected_images_per_face >= min_observations_to_be_included
ValidRows(per_face, threshold) == [f \in Faces |-> per_face[f] >= threshold]

\* projection_matrix[valid_rows, :]
SelectRows(matrix, mask) ==
    LET kept == SortedSeq({f \in Faces : mask[f]})
    IN [k \in 1 .. Len(kept) |-> matrix[kept[k]]]

InitOverlapVars ==
    /\ images_on_face = [f \in Faces |-> {}]
    /\ min_observations_to_be_included = 0
    /\ valid_rows = <<>>
    /\ projection_matrix = <<>>

\* compute_projection: the sparse aggregation takes the projection of the next
\* image, with n_classes = len(camera_set)
OverlapProjectImage ==
    /\ strategy = "overlap"
    /\ pc = "loop"
    /\ n_images < NChannels
    /\ \E proj \in ImageIDProjections(n_images) :
        /\ IndexAggregate(proj)
        /\ images_on_face' = [f \in Faces |->
                IF IsFinite(proj[f]) THEN images_on_face[f] \cup {n_images}
                ELSE images_on_face[f]]
    /\ n_images' = n_images + 1
    /\ UNCHANGED <<strategy, pc, viewpointVars, chunkVars, chunkHistory,
                   ip_average_projections, cameras_arg, p3d_cameras, fragments,
                   returned_pix_to_face, loadVars, raised, labelVars, voteVars, textureVars,
                   min_observations_to_be_included, valid_rows, projection_matrix>>

\* compute_minimal_set: the saved summed projections become the coverage matrix
ComputeMinimalSet ==
    /\ strategy = "overlap"
    /\ pc = "loop"
    /\ n_images = NChannels
    /\ \E threshold \in 1 .. NChannels + 1 :
        /\ min_observations_to_be_included' = threshold
        /\ LET loaded == AsBool(ip_summed_projections)
               mask == ValidRows(ProjectedImagesPerFace(loaded), threshold)
           IN /\ valid_rows' = mask
              /\ projection_matrix' = SelectRows(loaded, mask)
    /\ pc' = "minimal_set"
    /\ UNCHANGED <<strategy, n_images, viewpointVars, chunkVars, chunkHistory, indexVars,
                   cameras_arg, p3d_cameras, fragments, returned_pix_to_face, loadVars,
                   raised, labelVars, voteVars, textureVars, images_on_face>>

\* ------- TexturedPhotogrammetryMeshChunked.label_polygons (derived_meshes.py)
Polygons == 0 .. NPolygons - 1

\* a label is a string, held as the sequence of its characters: two class names
\* and the default unknown_class_label
ClassLabels ==
    {<<"o", "a", "k">>, <<"p", "i", "n", "e">>, <<"u", "n", "k", "n", "o", "w", "n">>}

\* int(np.ceil(len(polygons_gdf) / n_polygons_per_cluster))
NLabelClusters == (NPolygons + NPolygonsPerCluster - 1) \div NPolygonsPerCluster

\* KMeans(n_clusters).fit_predict(centroids_xy): every cluster holds a polygon
PolygonClusterings ==
    {ids \in [Polygons -> 0 .. NLabelClusters - 1] :
        \A k \in 0 .. NLabelClusters - 1 : \E q \in Polygons : ids[q] = k}

\* polygon_cluster_IDs == cluster_ID
ClusterMask(ids, k) == {q \in Polygons : ids[q] = k}

\* np.array(cluster_labels).dtype for a list of strings: the fixed-width unicode
\* type that holds the longest of them
ItemSize(labels) == Max({Len(l) : l \in labels})

\* the assignment of a string to an element of a fixed-width unicode array
\* keeps the first itemsize characters
Store(label, itemsize) == SubSeq(label, 1, Min({Len(label), itemsize}))

InitLabelVars ==
    /\ polygon_labels = <<>>
    /\ polygon_cluster_IDs = <<>>
    /\ label_cluster_ID = 0
    /\ all_labels_itemsize = 0
    /\ all_labels = <<>>
    /\ label_writes = <<>>
    /\ returned_labels = <<>>

\* label_polygons up to its loop: the polygons get their cluster ids
ClusterPolygons ==
    /\ strategy = "label_polygons"
    /\ pc = "call"
    /\ polygon_cluster_IDs' \in PolygonClusterings
    /\ label_cluster_ID' = 0
    /\ label_writes' = [q \in Polygons |-> 0]
    /\ pc' = "cluster"
    /\ UNCHANGED <<strategy, accumulatorVars, cameras_arg, p3d_cameras, fragments,
                   returned_pix_to_face, loadVars, raised, overlapVars, voteVars, textureVars,
                   polygon_labels,
                   all_labels_itemsize, all_labels, returned_labels>>

\* one iteration of `for cluster_ID in tqdm(range(n_clusters))`
LabelCluster ==
    /\ strategy = "label_polygons"
    /\ pc = "cluster"
    /\ label_cluster_ID < NLabelClusters
    /\ LET cluster_mask == ClusterMask(polygon_cluster_IDs, label_cluster_ID)
           cluster_labels == {polygon_labels[q] : q \in cluster_mask}
           itemsize == IF all_labels_itemsize = 0 THEN ItemSize(cluster_labels)
                       ELSE all_labels_itemsize
           allocated == IF all_labels_itemsize = 0 THEN [q \in Polygons |-> <<>>]
                        ELSE all_labels
       IN /\ all_labels_itemsize' = itemsize
          /\ all_labels' = [q \in Polygons |->
                IF q \in cluster_mask THEN Store(polygon_labels[q], itemsize)
                ELSE allocated[q]]
          /\ label_writes' = [q \in Polygons |->
                IF q \in cluster_mask THEN label_writes[q] + 1 ELSE label_writes[q]]
    /\ label_cluster_ID' = label_cluster_ID + 1
    /\ UNCHANGED <<strategy, pc, accumulatorVars, cameras_arg, p3d_cameras, fragments,
                   returned_pix_to_face, loadVars, raised, overlapVars, voteVars, textureVars,
                   polygon_labels,
                   polygon_cluster_IDs, returned_labels>>

\* all_labels.tolist()
LabelPolygonsReturn ==
    /\ strategy = "label_polygons"
    /\ pc = "cluster"
    /\ label_cluster_ID = NLabelClusters
    /\ returned_labels' = [i \in 1 .. NPolygons |-> all_labels[i - 1]]
    /\ pc' = "done"
    /\ UNCHANGED <<strategy, accumulatorVars, cameras_arg, p3d_cameras, fragments,
                   returned_pix_to_face, loadVars, raised, overlapVars, voteVars, textureVars,
                   polygon_labels,
                   polygon_cluster_IDs, label_cluster_ID, all_labels_itemsize,
                   all_labels, label_writes>>

\* ------------------- TexturedPhotogrammetryMesh.vert_to_face_IDs (meshes.py)
\* self.verts and self.faces: a strip of triangles, face f on the vertices
\* f, f + 1 and f + 2
NVerts == NFaces + 2
Verts == 0 .. NVerts - 1
MeshFaces == [f \in Faces |-> <<f, f + 1, f + 2>>]

\* the arrays of one ID per vertex
VertexIDArrays == [Verts -> -1 .. MaxVertexID]

\* IDs_per_face = vert_IDs[self.faces]
IDsPerFace(ids) == [f \in Faces |-> [k \in 1 .. 3 |-> ids[MeshFaces[f][k]]]]

\* np.array([np.sum(IDs_per_face == i, axis=1) for i in range(max_ID + 1)]).T
CountsPerClassPerFace(per_face, max_ID) ==
    [f \in Faces |-> [i \in 0 .. max_ID |->
        Cardinality({k \in 1 .. 3 : per_face[f][k] = i})]]

\* np.all(counts_per_class_per_face == 0, axis=1)
ZerosMask(cpc) == [f \in Faces |-> \A i \in DOMAIN cpc[f] : cpc[f][i] = 0]

\* np.random.random(shape) * 0.5, in quarters: a value below one half
RandomQuarters == {0, 1}

\* np.argmax of a row: the first index that holds the maximum
FirstMaxIndex(row) ==
    Min({i \in DOMAIN row : \A j \in DOMAIN row : row[j] <= row[i]})

\* the arrays vert_to_face_IDs can return, or the exception it ends with: with
\* no ID above -1 the list comprehension is empty, the array has one dimension
\* and np.all(..., axis=1) raises
VertToFaceIDs(ids) ==
    LET max_ID == Max({ids[v] : v \in Verts})
        cpc == CountsPerClassPerFace(IDsPerFace(ids), max_ID)
        zeros_mask == ZerosMask(cpc)
    IN IF max_ID < 0
       THEN [raised |-> "AxisError", returned |-> {}]
       ELSE [raised |-> "none",
             returned |->
                {[f \in Faces |->
                    IF zeros_mask[f] THEN -1
                    ELSE FirstMaxIndex([i \in 0 .. max_ID |->
                            4 * cpc[f][i] + noise[f][i]])] :
                 noise \in [Faces -> [0 .. max_ID -> RandomQuarters]]}]

InitVoteVars ==
    /\ vert_IDs = <<>>
    /\ most_common_class_per_face = <<>>

\* vert_to_face_IDs(vert_IDs)
VertToFaceCall ==
    /\ strategy = "vert_to_face_IDs"
    /\ pc = "call"
    /\ LET res == VertToFaceIDs(vert_IDs)
       IN /\ raised' = res.raised
          /\ IF res.raised # "none"
             THEN UNCHANGED most_common_class_per_face
             ELSE most_common_class_per_face' \in res.returned
    /\ pc' = "done"
    /\ UNCHANGED <<strategy, accumulatorVars, cameras_arg, p3d_cameras, fragments,
                   returned_pix_to_face, loadVars, overlapVars, labelVars, vert_IDs,
                   textureVars>>

\* ------------------- TexturedPhotogrammetryMesh.render_pytorch3d (meshes.py)
\* an attribute that is None
NoneArray == [from |-> "None", values |-> <<>>]

\* an array of n values that was set on the mesh
SetArrays(n, Values) == {[from |-> "set", values |-> a] : a \in [0 .. n - 1 -> Values]}

\* self.face_IDs: None, one ID per face, or an array of another length
FaceIDAttributes ==
    {NoneArray} \cup SetArrays(NFaces, 0 .. MaxVertexID) \cup SetArrays(NFaces - 1, {0})

\* self.vertex_IDs: None, one ID per vertex, or an array of another length
VertexIDAttributes ==
    {NoneArray} \cup SetArrays(NVerts, -1 .. MaxVertexID) \cup SetArrays(NVerts - 1, {0})

\* `x is not None and x.shape[0] == n`
HasLength(attr, n) == attr.from # "None" /\ Cardinality(DOMAIN attr.values) = n

InitTextureVars ==
    /\ self_face_IDs = NoneArray
    /\ self_vertex_IDs = NoneArray
    /\ label_img = <<>>

\* render_pytorch3d(camera_set, image_scale, camera_index)
RenderPytorch3d ==
    /\ strategy = "render_pytorch3d"
    /\ pc = "call"
    /\ IF HasLength(self_vertex_IDs, NVerts)
       THEN LET res == VertToFaceIDs(self_vertex_IDs.values)
            IN /\ raised' = res.raised
               /\ IF res.raised # "none"
                  THEN UNCHANGED <<self_face_IDs, label_img>>
                  ELSE \E ids \in res.returned, pix_to_face \in [Pixels -> -1 .. NFaces - 1] :
                        /\ self_face_IDs' = [from |-> "vert_to_face_IDs", values |-> ids]
                        /\ label_img' = [p \in Pixels |-> ids[WrapIndex(pix_to_face[p])]]
       ELSE /\ raised' = "ValueError"
            /\ UNCHANGED <<self_face_IDs, label_img>>
    /\ pc' = "done"
    /\ UNCHANGED <<strategy, accumulatorVars, cameras_arg, p3d_cameras, fragments,
                   returned_pix_to_face, loadVars, overlapVars, labelVars, voteVars,
                   self_vertex_IDs>>

\* -------------------------------------------------------- specifications
\* no rendering call made
InitRenderVars ==
    /\ p3d_cameras = <<>>
    /\ fragments = <<>>
    /\ returned_pix_to_face = <<>>
    /\ raised = "none"

\* the mesh object before load_mesh: __init__ sets the attributes to None
InitLoadVars ==
    /\ local_to_epgs_4978_transform = [from |-> "None", shape |-> <<>>]
    /\ pyvista_mesh = "None"

Init0 ==
    /\ n_images = 0
    /\ InitViewpointVars
    /\ InitChunkVars
    /\ InitIndexVars
    /\ InitRenderVars
    /\ InitLoadVars
    /\ InitOverlapVars
    /\ InitLabelVars
    /\ InitVoteVars
    /\ InitTextureVars

\* an aggregation run: no rendering call and no load_mesh call is under way
InitAggregation ==
    /\ Init0
    /\ cameras_arg = <<>>
    /\ load_args = <<>>

InitViewpoints == strategy = "viewpoints" /\ pc = "loop" /\ InitAggregation

NextViewpoints == ViewpointImage \/ ViewpointReturn \/ ConsensusExtraction

SpecViewpoints == InitViewpoints /\ [][NextViewpoints]_vars

\* the dense aggregation after LongRun images, every one with all its pixels of
\* one class c on face 0
InitLongRun ==
    /\ strategy = "viewpoints"
    /\ pc = "loop"
    /\ n_images = LongRun
    /\ \E c \in Channels :
        /\ face_colors = [f \in Faces |->
                IF f = 0 THEN [ch \in Channels |-> LongRun * OneHot(c)[ch]] ELSE ZeroRow]
        /\ contributed = [f \in Faces |-> [ch \in Channels |->
                IF f = 0 THEN {OneHot(c)[ch]} ELSE {}]]
    /\ counts = [f \in Faces |-> IF f = 0 THEN LongRun ELSE 0]
    /\ observations = [f \in Faces |-> IF f = 0 THEN LongRun ELSE 0]
    /\ touched = LongRun
    /\ unique_faces = {0}
    /\ normalized_face_colors = <<>>
    /\ predicted_face_classes = <<>>
    /\ InitChunkVars
    /\ InitIndexVars
    /\ InitRenderVars
    /\ InitLoadVars
    /\ InitOverlapVars
    /\ InitLabelVars
    /\ InitVoteVars
    /\ InitTextureVars
    /\ cameras_arg = <<>>
    /\ load_args = <<>>

SpecLongRun == InitLongRun /\ [][NextViewpoints]_vars

InitChunked == strategy = "chunked" /\ pc = "start" /\ InitAggregation

NextChunked ==
    \/ ClusterCameras
    \/ ChunkSkipped
    \/ ChunkYielded
    \/ ChunkImage
    \/ ChunkMerge
    \/ ChunkedReturn

SpecChunked == InitChunked /\ [][NextChunked]_vars

InitIndex == strategy = "index" /\ pc = "loop" /\ InitAggregation

NextIndex == IndexImage \/ IndexReturn

SpecIndex == InitIndex /\ [][NextIndex]_vars

\* the chunked dense aggregation and the sparse one on the same projections
InitEquiv == strategy = "equiv" /\ pc = "start" /\ InitAggregation

SpecEquiv == InitEquiv /\ [][NextChunked]_vars

\* the two dense aggregations
InitDense == InitViewpoints \/ InitChunked

NextDense == NextViewpoints \/ NextChunked

SpecDense == InitDense /\ [][NextDense]_vars

\* one call of pix2face, or of transform_into_pytorch3d_camera_set on a camera set
InitRender ==
    /\ strategy \in {"pix2face", "camera_set"}
    /\ pc = "call"
    /\ cameras_arg \in CameraArgs
    /\ strategy = "camera_set" => ~cameras_arg.is_single
    /\ load_args = <<>>
    /\ Init0

NextRender == Pix2Face \/ CameraSetConversion

SpecRender == InitRender /\ [][NextRender]_vars

\* one call of load_mesh
InitLoadMesh ==
    /\ strategy = "load_mesh"
    /\ pc = "call"
    /\ load_args \in LoadArgs
    /\ cameras_arg = <<>>
    /\ Init0

NextLoadMesh == LoadMesh

SpecLoadMesh == InitLoadMesh /\ [][NextLoadMesh]_vars

\* label_polygons(face_labels, polygons) with return_class_labels
InitLabelPolygons ==
    /\ strategy = "label_polygons"
    /\ pc = "call"
    /\ n_images = 0
    /\ InitViewpointVars
    /\ InitChunkVars
    /\ InitIndexVars
    /\ InitRenderVars
    /\ InitLoadVars
    /\ InitOverlapVars
    /\ InitVoteVars
    /\ InitTextureVars
    /\ cameras_arg = <<>>
    /\ load_args = <<>>
    /\ polygon_labels \in [Polygons -> ClassLabels]
    /\ polygon_cluster_IDs = <<>>
    /\ label_cluster_ID = 0
    /\ all_labels_itemsize = 0
    /\ all_labels = <<>>
    /\ label_writes = <<>>
    /\ returned_labels = <<>>

NextLabelPolygons == ClusterPolygons \/ LabelCluster \/ LabelPolygonsReturn

SpecLabelPolygons == InitLabelPolygons /\ [][NextLabelPolygons]_vars

\* the state before a call on the mesh: no aggregation, rendering or labelling
\* under way
InitMeshCall ==
    /\ pc = "call"
    /\ n_images = 0
    /\ InitViewpointVars
    /\ InitChunkVars
    /\ InitIndexVars
    /\ InitRenderVars
    /\ InitLoadVars
    /\ InitOverlapVars
    /\ InitLabelVars
    /\ cameras_arg = <<>>
    /\ load_args = <<>>

\* vert_to_face_IDs(vert_IDs)
InitVertToFace ==
    /\ strategy = "vert_to_face_IDs"
    /\ InitMeshCall
    /\ InitTextureVars
    /\ vert_IDs \in VertexIDArrays
    /\ most_common_class_per_face = <<>>

NextVertToFace == VertToFaceCall

SpecVertToFace == InitVertToFace /\ [][NextVertToFace]_vars

\* render_pytorch3d(camera_set) on a mesh with any face_IDs and vertex_IDs
InitRenderPytorch3d ==
    /\ strategy = "render_pytorch3d"
    /\ InitMeshCall
    /\ InitVoteVars
    /\ self_face_IDs \in FaceIDAttributes
    /\ self_vertex_IDs \in VertexIDAttributes
    /\ label_img = <<>>

NextRenderPytorch3d == RenderPytorch3d

SpecRenderPytorch3d == InitRenderPytorch3d /\ [][NextRenderPytorch3d]_vars

\* determine_minimum_overlapping_images(compute_projection, compute_minimal_set)
InitOverlap == strategy = "overlap" /\ pc = "loop" /\ InitAggregation

NextOverlap == OverlapProjectImage \/ ComputeMinimalSet

SpecOverlap == InitOverlap /\ [][NextOverlap]_vars

\* ================================================================ claims

\* C1: after dense aggregation the sum of count[face] over all faces equals the
\* sum, over images, of the number of distinct faces hit by the image's pixels,
\* a pixel with pix_to_face = -1 hitting no face.
C1_CountSumEqualsFacesTouched ==
    strategy = "viewpoints" => SumOver(Faces, counts) = touched

\* C2: processing one image increases count[face] by exactly 1 for every face
\* at least one pixel of the image maps to, however many pixels map to it.
C2_OneIncrementPerFacePerImage ==
    [][(strategy = "viewpoints" /\ n_images' = n_images + 1) =>
            \A f \in Faces : f \in unique_faces' => counts'[f] = counts[f] + 1]_vars

\* both pixels of the second image map to face 0, which the first image hit too
C2_Witness ==
    /\ strategy = "viewpoints"
    /\ n_images = 2
    /\ unique_faces = {0}
    /\ counts[0] = 2

\* C3: in both dense aggregations, once all images are processed, every face
\* with count 0 has the average NaN in every channel.
C3_UnobservedFacesAreNaN ==
    pc = "done" =>
        /\ strategy = "viewpoints" =>
                \A f \in Faces : counts[f] = 0 =>
                    \A ch \in Channels : normalized_face_colors[f][ch] = NaN
        /\ strategy = "chunked" =>
                \A f \in Faces : projection_counts[f] = 0 =>
                    \A ch \in Channels : average_projections[f][ch] = NaN

\* the unchunked aggregation returned with face 0 never observed and face 1 observed
C3_Witness ==
    /\ strategy = "viewpoints"
    /\ pc = "done"
    /\ counts[0] = 0
    /\ counts[NFaces - 1] > 0
    /\ \A ch \in Channels : normalized_face_colors[0][ch] = NaN

\* C4: after dense aggregation, for every face with count > 0 and every channel,
\* the average lies between the least and the greatest of the values the images'
\* pixels on that face contributed.
C4_AverageWithinContributions ==
    (strategy = "viewpoints" /\ pc = "done") =>
        \A f \in Faces : counts[f] > 0 =>
            \A ch \in Channels :
                \E lo \in contributed[f][ch], hi \in contributed[f][ch] :
                    /\ FloatLeq(Float(lo), normalized_face_colors[f][ch])
                    /\ FloatLeq(normalized_face_colors[f][ch], Float(hi))

\* C5: in sparse aggregation one image adds exactly 1 to summed_projections[face, c]
\* and to projection_counts[face] for every face whose projected value is the
\* finite class c, and changes no other cell.
C5_SparseImageIncrements ==
    [][(strategy = "index" /\ n_images' = n_images + 1) =>
            \A f \in Faces :
                LET x == projection_for_image'[f] IN
                /\ ip_projection_counts'[f] =
                        ip_projection_counts[f] + (IF IsFinite(x) THEN 1 ELSE 0)
                /\ \A c \in Channels :
                        ip_summed_projections'[f][c] =
                            ip_summed_projections[f][c]
                            + (IF IsFinite(x) /\ x = Float(c) THEN 1 ELSE 0)]_vars

\* the second image projects class 1 onto face 0 again and nothing onto the last face
C5_Witness ==
    /\ strategy = "index"
    /\ n_images = 2
    /\ projection_for_image[0] = Float(1)
    /\ IsNaN(projection_for_image[NFaces - 1])
    /\ ip_summed_projections[0][1] = 2
    /\ ip_projection_counts[0] = 2

\* C6: the returned sparse average of every face with a count > 0 is
\* summed_projections[face, c] / projection_counts[face], for every count.
C6_SparseAverageIsQuotient ==
    (strategy = "index" /\ pc = "done") =>
        \A f \in Faces : ip_projection_counts[f] > 0 =>
            \A c \in Channels :
                Float(ip_average_projections[f][c])
                    = Frac(ip_summed_projections[f][c], ip_projection_counts[f])

\* C7: fed the same per-image projections, the dense and the sparse strategy
\* give the same per-face counts and, for every observed face, the same average.
C7_DenseSparseAgree ==
    (strategy = "equiv" /\ pc = "done" /\ confined) =>
        \A f \in Faces :
            /\ projection_counts[f] = ip_projection_counts[f]
            /\ projection_counts[f] > 0 =>
                    \A c \in Channels :
                        average_projections[f][c] = Float(ip_average_projections[f][c])

\* the value a float adds to a sum in which a NaN counts as zero
AddendOf(x) == IF IsNaN(x) THEN 0 ELSE x[1]

\* C8: merging a chunk with Face ID Map m adds, for every chunk-local face i, the
\* chunk's count of i to projection_counts[m[i]] and the chunk's sum of i to
\* summed_projections[m[i]], a NaN on either side counting as zero.
C8_MergeIsScatterAdd ==
    [][(strategy = "chunked" /\ pc = "images" /\ pc' = "chunk") =>
            \A i \in 1 .. Len(face_IDs) :
                LET info == additional_information_submesh' IN
                /\ projection_counts'[face_IDs[i]] =
                        projection_counts[face_IDs[i]] + info.projection_counts[i]
                /\ \A ch \in Channels :
                        summed_projections'[face_IDs[i]][ch] =
                            Float(AddendOf(summed_projections[face_IDs[i]][ch])
                                  + AddendOf(info.summed_projections[i][ch]))]_vars

\* a second chunk was merged: it added 1 to a face that already held 1, and the
\* chunk's sum of another of its faces was NaN
C8_Witness ==
    /\ strategy = "chunked"
    /\ pc = "chunk"
    /\ cluster_ID = 2
    /\ Len(face_IDs) = 2
    /\ projection_counts[face_IDs[1]] = 2
    /\ additional_information_submesh.projection_counts[1] = 1
    /\ \A ch \in Channels : IsNaN(additional_information_submesh.summed_projections[2][ch])

\* every face is in the Face ID Map of exactly one chunk
FacesPartitioned == \A f \in Faces : n_maps[f] = 1

\* the accumulators an unchunked run returns
UnchunkedSummed == [f \in Faces |-> NanWhereUnobserved(un_summed[f], un_counts[f])]

\* C9 as stated: for any partition of the cameras and faces into non-overlapping
\* chunks, the chunked sums and counts equal those of one unchunked run.
C9_ChunkedEqualsUnchunked ==
    (strategy = "chunked" /\ pc = "done" /\ FacesPartitioned) =>
        /\ projection_counts = un_counts
        /\ summed_projections = UnchunkedSummed

\* C9 as amended: the same, for partitions in which every camera projects only
\* onto faces listed in the Face ID Map of its own chunk (and onto those as it
\* does in the whole mesh).
C9_ChunkedEqualsUnchunkedWhenConfined ==
    (strategy = "chunked" /\ pc = "done" /\ FacesPartitioned /\ confined) =>
        /\ projection_counts = un_counts
        /\ summed_projections = UnchunkedSummed

\* two chunks with disjoint maps were merged, each with an observed face
C9_Witness ==
    /\ strategy = "chunked"
    /\ pc = "done"
    /\ FacesPartitioned
    /\ confined
    /\ Len(face_IDs) < NFaces
    /\ projection_counts[0] > 0
    /\ projection_counts[NFaces - 1] > 0

\* C10: a face in the Face ID Maps of two chunks ends with the count of the
\* cameras of both chunks that observed it (obs_in_map, which is what an
\* unchunked run of those cameras counts); the second merge adds to the first.
C10_SharedFaceCountsBothChunks ==
    (strategy = "chunked" /\ pc = "done") =>
        \A f \in Faces : n_maps[f] >= 2 => projection_counts[f] = obs_in_map[f]

\* a face in two maps, observed by a camera of each chunk
C10_Witness ==
    /\ strategy = "chunked"
    /\ pc = "done"
    /\ \E f \in Faces : n_maps[f] = 2 /\ projection_counts[f] = 2 /\ obs_in_map[f] = 2

\* C11: when the generator yields a chunk whose Face ID Map is empty, the chunked
\* aggregation goes on to the next chunk: no aggregation of the chunk starts, and
\* the global sums and counts stay exactly as they were.
C11_EmptyChunkIsSkipped ==
    [][(/\ strategy = "chunked"
        /\ Len(yielded') = Len(yielded) + 1
        /\ yielded'[Len(yielded')].face_IDs = <<>>) =>
            /\ pc' = "chunk"
            /\ cluster_ID' = cluster_ID + 1
            /\ summed_projections' = summed_projections
            /\ projection_counts' = projection_counts
            /\ sub_summed' = sub_summed
            /\ sub_counts' = sub_counts
            /\ additional_information_submesh' = additional_information_submesh]_vars

\* an empty chunk was skipped after an earlier chunk had put an observation in
\* the global accumulators
C11_Witness ==
    /\ strategy = "chunked"
    /\ pc = "chunk"
    /\ Len(yielded) >= 2
    /\ yielded[Len(yielded)].face_IDs = <<>>
    /\ yielded[1].face_IDs # <<>>
    /\ \E f \in Faces : projection_counts[f] > 0

\* C12: the sequence get_mesh_chunks_for_cameras yields holds one triple for each
\* cluster whose region has a face, and no triple for a cluster with no face.
C12_OneTriplePerNonEmptyCluster ==
    (strategy = "chunked" /\ pc = "done") =>
        /\ \A i \in 1 .. Len(yielded) : yielded[i].face_IDs # <<>>
        /\ \A i, j \in 1 .. Len(yielded) :
                i # j => yielded[i].cluster_ID # yielded[j].cluster_ID

\* C13: every camera has exactly one cluster id in [0, n_clusters); the camera
\* subsets yielded are pairwise disjoint, and once every cluster is yielded their
\* union is the whole camera set.
C13_CameraSubsetsPartition ==
    strategy = "chunked" =>
        /\ pc # "start" => camera_cluster_IDs \in [Cameras -> Clusters]
        /\ \A i, j \in 1 .. Len(yielded) :
                i # j => yielded[i].sub_camera_set \cap yielded[j].sub_camera_set = {}
        /\ pc = "done" =>
                UNION {yielded[i].sub_camera_set : i \in 1 .. Len(yielded)} = Cameras

\* every cluster was yielded, each with at least one camera
C13_Witness ==
    /\ strategy = "chunked"
    /\ pc = "done"
    /\ Len(yielded) = NClusters
    /\ \A i \in 1 .. Len(yielded) : yielded[i].sub_camera_set # {}

\* C14: on a 2-face mesh with 2 cameras, one seeing only face 0 with class 1 and
\* the other seeing face 0 with class 1 and face 1 with class 2, the counts are
\* [2, 1], the average of face 0 is [0, 1, 0] and the average of face 1 is [0, 0, 1].
C14_TwoFacesTwoCameras ==
    (/\ strategy = "viewpoints"
     /\ pc = "done"
     /\ Faces = {0, 1}
     /\ n_images = 2
     /\ observations = (0 :> 2 @@ 1 :> 1)
     /\ contributed[0] = [ch \in Channels |-> IF ch = 1 THEN {1} ELSE {0}]
     /\ contributed[1] = [ch \in Channels |-> IF ch = 2 THEN {1} ELSE {0}]) =>
        /\ counts = (0 :> 2 @@ 1 :> 1)
        /\ normalized_face_colors[0] = [ch \in Channels |-> Float(OneHot(1)[ch])]
        /\ normalized_face_colors[1] = [ch \in Channels |-> Float(OneHot(2)[ch])]

\* C15: when no camera was aggregated, every face has count 0 and its consensus
\* class is the unknown value (NaN), not a class id.
C15_NoCamerasAllUnknown ==
    (strategy = "viewpoints" /\ pc = "consensus" /\ n_images = 0) =>
        \A f \in Faces : counts[f] = 0 /\ IsNaN(predicted_face_classes[f])

\* x < y as numpy compares floats: false when either is NaN
FloatLess(x, y) ==
    LET g == IF x[2] = 0 /\ y[2] = 0 THEN 1 ELSE GCD(x[2], y[2])
    IN ~IsNaN(x) /\ ~IsNaN(y) /\ x[1] * (y[2] \div g) < y[1] * (x[2] \div g)

\* no class of the row has a greater value than class c
Maximizes(row, c) == \A d \in Channels : ~FloatLess(row[c], row[d])

\* C16: the consensus class of every face is a class whose aggregated value no
\* other class exceeds, and the lowest such class when several tie.
C16_ArgmaxLowestIndexOnTies ==
    (strategy = "viewpoints" /\ pc = "consensus") =>
        \A f \in Faces :
            \E c \in Channels :
                /\ predicted_face_classes[f] = Float(c)
                /\ Maximizes(normalized_face_colors[f], c)
                /\ \A d \in Channels :
                        d < c => ~Maximizes(normalized_face_colors[f], d)

\* a face seen once with class 1 and once with class 2 got class 1
C16_Witness ==
    /\ strategy = "viewpoints"
    /\ pc = "consensus"
    /\ \E f \in Faces :
            /\ normalized_face_colors[f][1] = Frac(1, 2)
            /\ normalized_face_colors[f][2] = Frac(1, 2)
            /\ predicted_face_classes[f] = Float(1)

\* C17: for every camera k of a batch and every pixel, the value pix2face
\* returns is -1 exactly when the rasterizer gave -1, and otherwise the
\* rasterizer's value minus k times the face count, a face index of the mesh
\* (the model numbers the cameras from 1: the offset of camera k is (k - 1) * n_faces).
C17_BatchIsDeOffset ==
    (strategy = "pix2face" /\ pc = "done" /\ ~cameras_arg.is_single) =>
        /\ Len(returned_pix_to_face) = Len(cameras_arg.image_sizes)
        /\ \A k \in 1 .. Len(returned_pix_to_face) :
             \A i \in 1 .. Len(returned_pix_to_face[k]) :
              \A j \in 1 .. Len(returned_pix_to_face[k][i]) :
                /\ returned_pix_to_face[k][i][j] = -1 <=> fragments[k][i][j] = -1
                /\ fragments[k][i][j] # -1 =>
                        /\ returned_pix_to_face[k][i][j] = fragments[k][i][j] - (k - 1) * NFaces
                        /\ returned_pix_to_face[k][i][j] \in Faces

\* the shape of an array of three dimensions
Shape(arr) == <<Len(arr), Len(arr[1]), Len(arr[1][1])>>

\* C18: pix2face returns an array of shape (h, w) for a single camera and of
\* shape (n_cameras, h, w) for a camera set.
C18_ReturnedShape ==
    (strategy = "pix2face" /\ pc = "done") =>
        /\ raised = "none"
        /\ Shape(returned_pix_to_face) =
                IF cameras_arg.is_single THEN cameras_arg.image_sizes[1]
                ELSE <<Len(cameras_arg.image_sizes)>> \o cameras_arg.image_sizes[1]

\* C19: converting a camera set whose cameras do not all have the same image
\* size ends with InconsistentImageSizeError and gives no camera batch.
C19_MixedSizesRaiseInconsistentImageSize ==
    (/\ strategy = "camera_set"
     /\ pc = "done"
     /\ \E i \in 1 .. Len(cameras_arg.image_sizes) :
            cameras_arg.image_sizes[i] # cameras_arg.image_sizes[1]) =>
        /\ raised = "InconsistentImageSizeError"
        /\ p3d_cameras = <<>>

\* C20: when the transform file exists and does not hold a 4x4 matrix, load_mesh
\* ends with ValueError, the mesh is not read, and the transform attribute holds
\* what the file held: it is not given another shape or the identity default.
C20_MalformedTransformRaises ==
    (/\ strategy = "load_mesh"
     /\ pc = "done"
     /\ load_args.is_file
     /\ load_args.shape # <<TransformDim, TransformDim>>) =>
        /\ raised = "ValueError"
        /\ pyvista_mesh = "None"
        /\ local_to_epgs_4978_transform =
                [from |-> "file", shape |-> load_args.shape]

\* a 3x4 matrix in the transform file of a call that requires a transform
C20_Witness ==
    /\ strategy = "load_mesh"
    /\ pc = "done"
    /\ load_args.is_file
    /\ load_args.shape = <<TransformDim - 1, TransformDim>>
    /\ load_args.require_transform
    /\ raised = "ValueError"
    /\ pyvista_mesh = "None"

\* the orders in which n merged chunks can be taken
Orders(n) == {o \in [1 .. n -> 1 .. n] : \A i, j \in 1 .. n : o[i] = o[j] => i = j}

\* the counts after merging the first k chunks of the order o into zeroed counts
RECURSIVE MergedCountsInOrder(_, _)
MergedCountsInOrder(o, k) ==
    IF k = 0 THEN [f \in Faces |-> 0]
    ELSE MergeCounts(MergedCountsInOrder(o, k - 1), merged[o[k]].face_IDs,
                     merged[o[k]].info.projection_counts)

\* the sums after merging the first k chunks of the order o into zeroed sums
RECURSIVE MergedSummedInOrder(_, _)
MergedSummedInOrder(o, k) ==
    IF k = 0 THEN [f \in Faces |-> ZeroFloatRow]
    ELSE MergeSummed(MergedSummedInOrder(o, k - 1), merged[o[k]].face_IDs,
                     merged[o[k]].info.summed_projections)

\* C21: the chunked sums and counts are those of merging the same chunks in any
\* other order, overlapping Face ID Maps included: before the return they equal
\* the fold of the merged chunks in every order, and the returned sums equal that
\* fold with NaN on the faces whose folded count is zero.
C21_MergeOrderIndependent ==
    strategy = "chunked" =>
        \A o \in Orders(Len(merged)) :
            LET cnt == MergedCountsInOrder(o, Len(merged))
                sm == MergedSummedInOrder(o, Len(merged))
            IN /\ projection_counts = cnt
               /\ summed_projections =
                    IF pc = "done"
                    THEN [f \in Faces |-> NanWhereUnobserved(sm[f], cnt[f])]
                    ELSE sm

\* two chunks with different, overlapping maps were merged, and a camera of each
\* observed a face the maps share
C21_Witness ==
    /\ strategy = "chunked"
    /\ pc = "done"
    /\ Len(merged) = 2
    /\ merged[1].face_IDs # merged[2].face_IDs
    /\ \E i \in 1 .. Len(merged[1].face_IDs) : \E j \in 1 .. Len(merged[2].face_IDs) :
            /\ merged[1].face_IDs[i] = merged[2].face_IDs[j]
            /\ merged[1].info.projection_counts[i] > 0
            /\ merged[2].info.projection_counts[j] > 0
            /\ merged[1].info.summed_projections[i] # merged[2].info.summed_projections[j]

\* C22: in the dense (chunked) and the sparse strategy, fed the same projections,
\* accumulation and normalization never raise, whatever the projections: no
\* state carries an exception, a run that has not returned can always take a
\* step, and in the returned averages a face with zero observations is an
\* all-NaN row of the dense result and an empty (all-zero) row of the sparse one.
C22_ZeroObservationsNeverRaise ==
    strategy = "equiv" =>
        /\ raised = "none"
        /\ pc # "done" => ENABLED NextChunked
        /\ pc = "done" =>
            \A f \in Faces :
                /\ projection_counts[f] = 0 =>
                        \A ch \in Channels : IsNaN(average_projections[f][ch])
                /\ ip_projection_counts[f] = 0 => ip_average_projections[f] = ZeroRow

\* both strategies returned, with a face no camera observed beside an observed one
C22_Witness ==
    /\ strategy = "equiv"
    /\ pc = "done"
    /\ \E f, g \in Faces :
            /\ projection_counts[f] = 0
            /\ ip_projection_counts[f] = 0
            /\ projection_counts[g] > 0
            /\ ip_projection_counts[g] > 0

\* C23: with compute_minimal_set, the coverage matrix has a row for a face
\* exactly when the number of distinct images that project onto the face is at
\* least min_observations_to_be_included; the rows are those faces in face
\* order, and column c of a row tells whether image c projects onto the face.
C23_CoverageRowsAtThreshold ==
    (strategy = "overlap" /\ pc = "minimal_set") =>
        LET kept == SortedSeq({f \in Faces :
                        Cardinality(images_on_face[f]) >= min_observations_to_be_included})
        IN /\ \A f \in Faces :
                valid_rows[f] <=>
                    Cardinality(images_on_face[f]) >= min_observations_to_be_included
           /\ Len(projection_matrix) = Len(kept)
           /\ \A k \in 1 .. Len(kept) : \A c \in Channels :
                projection_matrix[k][c] <=> c \in images_on_face[kept[k]]

\* a face seen by exactly the threshold of two images is kept, beside a face
\* seen by fewer that is dropped; the kept row lacks the first image
C23_Witness ==
    /\ strategy = "overlap"
    /\ pc = "minimal_set"
    /\ min_observations_to_be_included = 2
    /\ Len(projection_matrix) = 1
    /\ \E f \in Faces : valid_rows[f] /\ images_on_face[f] = {1, 2}
    /\ \E f \in Faces : ~valid_rows[f] /\ Cardinality(images_on_face[f]) = 1

\* C24: the clustered label_polygons returns one label per input polygon, in
\* input order, each exactly the label the labelling of the polygon's cluster
\* returned for it; every entry was assigned exactly once and no label is
\* altered (for instance shortened).
C24_LabelsReturnedUnaltered ==
    (strategy = "label_polygons" /\ pc = "done") =>
        /\ Len(returned_labels) = NPolygons
        /\ \A q \in Polygons :
                /\ returned_labels[q + 1] = polygon_labels[q]
                /\ label_writes[q] = 1

\* C25: in the dense aggregation, processing an image leaves the sum and the
\* count of a face unchanged when no pixel of the image maps to the face, also
\* when the image has pixels that map to no face (-1).
C25_UnhitFaceUnchanged ==
    [][(strategy = "viewpoints" /\ n_images' = n_images + 1) =>
            \A f \in Faces :
                observations'[f] = observations[f] =>
                    /\ counts'[f] = counts[f]
                    /\ face_colors'[f] = face_colors[f]]_vars

\* C26: merging a chunk changes the global sums and counts only at the indices
\* in the chunk's Face ID Map: every other face keeps its sum and count, and the
\* merge leaves the chunk's own map and accumulators as they were, what the
\* chunk returned being its counts.
C26_MergeTouchesOnlyMappedFaces ==
    [][(strategy = "chunked" /\ pc = "images" /\ pc' = "chunk") =>
            /\ \A f \in Faces \ Range(face_IDs) :
                    /\ projection_counts'[f] = projection_counts[f]
                    /\ summed_projections'[f] = summed_projections[f]
            /\ face_IDs' = face_IDs
            /\ sub_counts' = sub_counts
            /\ sub_summed' = sub_summed
            /\ additional_information_submesh'.projection_counts = sub_counts]_vars

\* the second chunk, whose map leaves out a face the first chunk had observed,
\* was merged with an observation of its own
C26_Witness ==
    /\ strategy = "chunked"
    /\ pc = "chunk"
    /\ Len(merged) = 2
    /\ \E f \in Faces \ Range(face_IDs) : projection_counts[f] > 0
    /\ \E i \in 1 .. Len(face_IDs) : merged[2].info.projection_counts[i] > 0

\* C27: in the sparse strategy, after every image the classes' cells of a face
\* in summed_projections add up to projection_counts of the face, and so every
\* row of the returned average of an observed face adds up to 1.
C27_SparseRowsSumToCount ==
    strategy = "index" =>
        \A f \in Faces :
            /\ SumOver(Channels, ip_summed_projections[f]) = ip_projection_counts[f]
            /\ (pc = "done" /\ ip_projection_counts[f] > 0) =>
                    SumOver(Channels, ip_average_projections[f]) = 1

\* the classes with the most votes among the IDs of the vertices of face f
MostVotedClasses(ids, f) ==
    LET votes(i) == Cardinality({k \in 1 .. 3 : ids[MeshFaces[f][k]] = i})
    IN {i \in 0 .. MaxVertexID : votes(i) > 0 /\ \A j \in 0 .. MaxVertexID : votes(j) <= votes(i)}

\* C28: vert_to_face_IDs returns, for every face, one of the classes tied for
\* the most votes among the face's vertices, and -1 for a face none of whose
\* vertices carries a class of 0 .. max_ID.
C28_TieBreakAmongMostVoted ==
    (strategy = "vert_to_face_IDs" /\ pc = "done") =>
        /\ raised = "none"
        /\ \A f \in Faces :
                IF MostVotedClasses(vert_IDs, f) = {}
                THEN most_common_class_per_face[f] = -1
                ELSE most_common_class_per_face[f] \in MostVotedClasses(vert_IDs, f)

\* C30: render_pytorch3d raises ValueError('No texture for rendering') only when
\* the mesh has neither valid face_IDs nor valid vertex_IDs; with valid face_IDs
\* the call renders without raising, and face_IDs is not overwritten.
C30_ValidFaceIDsRender ==
    [][(strategy = "render_pytorch3d" /\ pc = "call" /\ pc' = "done") =>
            /\ raised' = "ValueError" =>
                    (~HasLength(self_face_IDs, NFaces) /\ ~HasLength(self_vertex_IDs, NVerts))
            /\ HasLength(self_face_IDs, NFaces) =>
                    (raised' = "none" /\ self_face_IDs' = self_face_IDs)]_vars

\* C29: the accumulators do not overflow, however many images observe a face:
\* the count of a face is the number of images that observed it, also past
\* 65535 of them (the last face is left out: it also takes the pixels that map
\* to no face).
C29_CountsDoNotOverflow ==
    strategy = "viewpoints" =>
        \A f \in Faces \ {NFaces - 1} : counts[f] = observations[f]
====
